---- MODULE Spec2Model ----
(***************************************************************************)
(* The native checksum boundary of samples/ffi-python/src/lib.rs:          *)
(* get_checksum allocates a 12-byte buffer with libc malloc, zeroes it,    *)
(* copies the token "abcdef" into it and hands it to the caller;           *)
(* release_checksum gives a handle to libc free.                           *)
(*                                                                         *)
(* Memory is a set of blocks.  The caller's path strings live in blocks    *)
(* the caller owns; the libc heap is a fixed number of blocks that malloc  *)
(* hands out and free takes back.  Several caller threads issue calls;     *)
(* each call is a sequence of steps (one per libc call of the source), so  *)
(* calls of different threads interleave.                                  *)
(*                                                                         *)
(* The callers follow the contract of the boundary: a thread releases      *)
(* only null or a handle it got from get_checksum, each such handle once.  *)
(***************************************************************************)
EXTENDS Integers, Sequences, FiniteSets, TLC

\* ------------------------------------------------------------- bounds
NumThreads == 2
NumHeapBlocks == 2
MaxCalls == 2

\* ---------------------------------------------------------- constants
NULL == 0
MallocSize == 12
MemsetLen == 12
MemsetVal == 0

Threads == 1..NumThreads
\* Two path strings of the caller, "/a" and "/b", at addresses 1 and 2.
PathAddrs == {1, 2}
HeapAddrs == 3..(2 + NumHeapBlocks)
Addrs == PathAddrs \cup HeapAddrs

PathBytes(a) == IF a = 1 THEN <<47, 97, 0>> ELSE <<47, 98, 0>>

\* "abcdef"
Token == <<97, 98, 99, 100, 101, 102>>

\* CString::new(s).unwrap(): the bytes of s followed by the terminator.
CStringNew(s) == Append(s, 0)

\* The allocator family a block belongs to.
CallerFamily == "caller"
MallocFamilyMutRust == "rust"
MallocFamily == "libc"
FreeFamily == "libc"

VARIABLES mem, pc, frame, held, last, crashed, crashSite, crashThread,
          wildWrite, badFree, nMalloc, nAlloc, life, nReturned, nReleased

vars == <<mem, pc, frame, held, last, crashed, crashSite, crashThread,
          wildWrite, badFree, nMalloc, nAlloc, life, nReturned, nReleased>>

FreeBlock == [live |-> FALSE, family |-> "none", bytes |-> <<>>, inst |-> 0]
EmptyFrame == [filepath |-> NULL, result |-> NULL, oom |-> FALSE]
NoCall == [op |-> "none", thread |-> 0, arg |-> NULL, ret |-> NULL, oom |-> FALSE]

InitMem ==
    [a \in Addrs |->
        IF a \in PathAddrs
        THEN [live |-> TRUE, family |-> CallerFamily, bytes |-> PathBytes(a), inst |-> 0]
        ELSE FreeBlock]

Init ==
    /\ mem = InitMem
    /\ pc = [t \in Threads |-> "idle"]
    /\ frame = [t \in Threads |-> EmptyFrame]
    /\ held = [t \in Threads |-> {}]
    /\ last = NoCall
    /\ crashed = FALSE
    /\ crashSite = "none"
    /\ crashThread = 0
    /\ wildWrite = FALSE
    /\ badFree = FALSE
    /\ nMalloc = 0
    /\ nAlloc = 0
    /\ life = [i \in 1..MaxCalls |-> "none"]
    /\ nReturned = 0
    /\ nReleased = 0

\* ------------------------------------------------------------ helpers
Fill(n, v) == [i \in 1..n |-> v]

\* The bytes of `old` with `data` stored over its start (what lies past the
\* end of `old` is not part of the block).
Overwrite(old, data) ==
    [i \in 1..Len(old) |-> IF i <= Len(data) THEN data[i] ELSE old[i]]

\* Index of the first NUL of a byte sequence, 0 when it holds none.
FirstNul(b) ==
    IF \E i \in 1..Len(b) : b[i] = 0
    THEN CHOOSE i \in 1..Len(b) : b[i] = 0 /\ \A j \in 1..(i - 1) : b[j] # 0
    ELSE 0

\* strlen: the number of bytes before the first NUL.
StrLen(b) == FirstNul(b) - 1

\* What strcpy copies from src: its bytes up to and including the first NUL.
StrcpyData(src) == SubSeq(src, 1, FirstNul(src))

\* A store of `data` at `dst` stays inside an allocated block.
WriteOK(m, dst, data) ==
    /\ dst \in Addrs
    /\ m[dst].live
    /\ Len(data) <= Len(m[dst].bytes)

Stored(m, dst, data) ==
    IF dst \in Addrs /\ m[dst].live
    THEN [m EXCEPT ![dst].bytes = Overwrite(@, data)]
    ELSE m

\* ------------------------------------------------- the code's choices
\* filepath == ptr::null()
IsNullMutNever(p) == FALSE
IsNull(p) == p = NULL

\* The order of the statements of get_checksum's unsafe block.
GcOrderMutNoFill(stage) ==
    CASE stage = "gc_malloc" -> "gc_return"
      [] stage = "gc_memset" -> "gc_strcpy"
      [] stage = "gc_strcpy" -> "gc_return"
GcOrder(stage) ==
    CASE stage = "gc_malloc" -> "gc_memset"
      [] stage = "gc_memset" -> "gc_strcpy"
      [] stage = "gc_strcpy" -> "gc_return"

\* malloc hands out a block that is not allocated.
AllocSitesMutStatic(m) == {3}
AllocSites(m) == {a \in HeapAddrs : ~m[a].live}

\* The contents of a fresh block are not initialised: any bytes, here all
\* 0xFF or all zero.
MallocFills(n) == {Fill(n, 255), Fill(n, 0)}

\* memset(result, 0, 12)
MemsetDst(fr) == fr.result
MemsetData == Fill(MemsetLen, MemsetVal)

\* strcpy(result as *mut c_char, CString::new("abcdef").unwrap().as_ptr())
StrcpyDstMutPath(fr) == fr.filepath
StrcpyDst(fr) == fr.result
StrcpySrc == CStringNew(Token)

\* return result as *mut c_char
ReturnValue(fr) == fr.result

\* free(checksum as *mut c_void)
FreeArg(checksum) == checksum

\* free(NULL) does nothing.
FreeIgnoresMutNever(p) == FALSE
FreeIgnores(p) == p = NULL

\* A store through a pointer that is null or too small for it is undefined
\* behaviour: the build either traps, or the store lands outside every
\* allocated block and execution goes on.
UBOutcomes == {"trap", "continue"}

\* -------------------------------------------------------------- calls
\* Calls that have passed the null check and not yet called malloc.
BeforeMalloc == {t \in Threads : pc[t] = "gc_malloc"}

\* The caller invokes get_checksum(p):
\*     if filepath == ptr::null() { return ptr::null_mut() }
\* A null path returns at once; otherwise the call goes on to malloc.  A
\* call that will reach malloc is issued only while the model's budget of
\* malloc calls lasts.
GetChecksumEnter(t, p) ==
    /\ ~crashed
    /\ pc[t] = "idle"
    /\ IF IsNull(p)
       THEN /\ last' = [op |-> "get_checksum", thread |-> t, arg |-> p,
                     ret |-> NULL, oom |-> FALSE]
            /\ UNCHANGED <<pc, frame>>
       ELSE /\ nMalloc + Cardinality(BeforeMalloc) < MaxCalls
            /\ pc' = [pc EXCEPT ![t] = "gc_malloc"]
            /\ frame' = [frame EXCEPT ![t] = [EmptyFrame EXCEPT !.filepath = p]]
            /\ UNCHANGED last
    /\ UNCHANGED <<mem, held, crashed, crashSite, crashThread, wildWrite,
                   badFree, nMalloc, nAlloc, life, nReturned, nReleased>>

\* let result = malloc(12): the allocation fails ...
GcMallocFail(t) ==
    /\ ~crashed
    /\ pc[t] = "gc_malloc"
    /\ frame' = [frame EXCEPT ![t].result = NULL, ![t].oom = TRUE]
    /\ pc' = [pc EXCEPT ![t] = GcOrder("gc_malloc")]
    /\ nMalloc' = nMalloc + 1
    /\ UNCHANGED <<mem, held, last, crashed, crashSite, crashThread, wildWrite,
                   badFree, nAlloc, life, nReturned, nReleased>>

\* ... or returns a fresh block of 12 bytes.
GcMallocOk(t) ==
    /\ ~crashed
    /\ pc[t] = "gc_malloc"
    /\ \E a \in AllocSites(mem), fill \in MallocFills(MallocSize) :
          /\ mem' = [mem EXCEPT ![a] = [live |-> TRUE, family |-> MallocFamily,
                                        bytes |-> fill, inst |-> nAlloc + 1]]
          /\ frame' = [frame EXCEPT ![t].result = a]
    /\ nAlloc' = nAlloc + 1
    /\ life' = [life EXCEPT ![nAlloc + 1] = "pending"]
    /\ pc' = [pc EXCEPT ![t] = GcOrder("gc_malloc")]
    /\ nMalloc' = nMalloc + 1
    /\ UNCHANGED <<held, last, crashed, crashSite, crashThread, wildWrite,
                   badFree, nReturned, nReleased>>

\* A store of `data` at `dst` by thread t, then on to stage `next`.
WriteStep(t, dst, data, site, next) ==
    IF WriteOK(mem, dst, data)
    THEN /\ mem' = Stored(mem, dst, data)
         /\ pc' = [pc EXCEPT ![t] = next]
         /\ UNCHANGED <<crashed, crashSite, crashThread, wildWrite>>
    ELSE \E o \in UBOutcomes :
           IF o = "trap"
           THEN /\ crashed' = TRUE
                /\ crashSite' = site
                /\ crashThread' = t
                /\ UNCHANGED <<mem, pc, wildWrite>>
           ELSE /\ mem' = Stored(mem, dst, data)
                /\ wildWrite' = TRUE
                /\ pc' = [pc EXCEPT ![t] = next]
                /\ UNCHANGED <<crashed, crashSite, crashThread>>

\* memset(result, 0, 12)
GcMemset(t) ==
    /\ ~crashed
    /\ pc[t] = "gc_memset"
    /\ WriteStep(t, MemsetDst(frame[t]), MemsetData, "memset", GcOrder("gc_memset"))
    /\ UNCHANGED <<frame, held, last, badFree, nMalloc, nAlloc, life,
                   nReturned, nReleased>>

\* strcpy(result, "abcdef\0")
GcStrcpy(t) ==
    /\ ~crashed
    /\ pc[t] = "gc_strcpy"
    /\ WriteStep(t, StrcpyDst(frame[t]), StrcpyData(StrcpySrc), "strcpy",
                 GcOrder("gc_strcpy"))
    /\ UNCHANGED <<frame, held, last, badFree, nMalloc, nAlloc, life,
                   nReturned, nReleased>>

\* return result: the caller now holds the handle.
GcReturn(t) ==
    /\ ~crashed
    /\ pc[t] = "gc_return"
    /\ LET r == ReturnValue(frame[t]) IN
       /\ held' = IF r # NULL THEN [held EXCEPT ![t] = @ \cup {r}] ELSE held
       /\ last' = [op |-> "get_checksum", thread |-> t,
                   arg |-> frame[t].filepath, ret |-> r, oom |-> frame[t].oom]
       /\ life' = IF r \in Addrs /\ mem[r].inst > 0
                  THEN [life EXCEPT ![mem[r].inst] = "owned"]
                  ELSE life
       /\ nReturned' = IF r # NULL THEN nReturned + 1 ELSE nReturned
    /\ frame' = [frame EXCEPT ![t] = EmptyFrame]
    /\ pc' = [pc EXCEPT ![t] = "idle"]
    /\ UNCHANGED <<mem, crashed, crashSite, crashThread, wildWrite, badFree,
                   nMalloc, nAlloc, nReleased>>

\* The caller invokes release_checksum(h) with null or a handle it holds,
\* giving the handle up:
\*     unsafe { free(checksum as *mut c_void); }
ReleaseChecksum(t, h) ==
    /\ ~crashed
    /\ pc[t] = "idle"
    /\ h \in held[t] \cup {NULL}
    /\ held' = [held EXCEPT ![t] = @ \ {h}]
    /\ LET p == FreeArg(h)
           done == /\ last' = [op |-> "release_checksum", thread |-> t,
                               arg |-> h, ret |-> NULL, oom |-> FALSE]
                   /\ nReleased' = IF h # NULL THEN nReleased + 1 ELSE nReleased
                   /\ UNCHANGED <<crashed, crashSite, crashThread>>
       IN
       IF FreeIgnores(p)
       THEN /\ done
            /\ UNCHANGED <<mem, life, badFree>>
       ELSE IF p \in Addrs /\ mem[p].live /\ mem[p].family = FreeFamily
       THEN /\ done
            /\ mem' = [mem EXCEPT ![p] = FreeBlock]
            /\ life' = IF mem[p].inst > 0
                       THEN [life EXCEPT ![mem[p].inst] = "released"]
                       ELSE life
            /\ UNCHANGED badFree
       ELSE \* free of a pointer this allocator does not own: undefined
            /\ badFree' = TRUE
            /\ \E o \in UBOutcomes :
                 IF o = "trap"
                 THEN /\ crashed' = TRUE
                      /\ crashSite' = "free"
                      /\ crashThread' = t
                      /\ UNCHANGED <<last, nReleased, mem, life>>
                 ELSE /\ done
                      /\ UNCHANGED <<mem, life>>
    /\ UNCHANGED <<pc, frame, wildWrite, nMalloc, nAlloc, nReturned>>

Next ==
    \E t \in Threads :
        \/ \E p \in PathAddrs \cup {NULL} : GetChecksumEnter(t, p)
        \/ GcMallocFail(t)
        \/ GcMallocOk(t)
        \/ GcMemset(t)
        \/ GcStrcpy(t)
        \/ GcReturn(t)
        \/ \E h \in HeapAddrs \cup {NULL} : ReleaseChecksum(t, h)

Spec == Init /\ [][Next]_vars

\* ============================================================ claims
LiveHeap == {a \in HeapAddrs : mem[a].live}

\* "abcdef", its terminator and five more zero bytes: 12 bytes.
PlaceholderBuffer == <<97, 98, 99, 100, 101, 102, 0, 0, 0, 0, 0, 0>>

\* Every call is over: it has returned, or it is the call the process died in.
Quiescent == \A t \in Threads : pc[t] = "idle" \/ (crashed /\ crashThread = t)

\* C1: a get_checksum call with the null path returns null, allocates
\* nothing (the memory and the count of malloc calls are as before the
\* call), raises no error, and never reaches the allocation stage.
C1_NullPathNoAlloc ==
    [][ /\ \A t \in Threads : pc'[t] # "idle" => frame'[t].filepath # NULL
        /\ (last' # last /\ last'.op = "get_checksum" /\ last'.arg = NULL)
              => /\ last'.ret = NULL
                 /\ mem' = mem
                 /\ nMalloc' = nMalloc
                 /\ nAlloc' = nAlloc
                 /\ crashed' = FALSE
                 /\ wildWrite' = wildWrite ]_vars

C1_Witness ==
    /\ last.op = "get_checksum" /\ last.arg = NULL /\ last.ret = NULL
    /\ LiveHeap # {}
    /\ nMalloc = MaxCalls

\* C2 (as stated): every get_checksum call with a non-null path returns a
\* non-null pointer to a 12-byte buffer with a NUL inside it and a content
\* length below 12, and no store of any call lands outside an allocated
\* block.
C2_NonNullTerminated ==
    /\ ~wildWrite
    /\ (last.op = "get_checksum" /\ last.arg # NULL)
          => /\ last.ret \in HeapAddrs
             /\ mem[last.ret].live
             /\ Len(mem[last.ret].bytes) = 12
             /\ FirstNul(mem[last.ret].bytes) > 0
             /\ StrLen(mem[last.ret].bytes) < 12

\* C3 (as stated): for every non-null path, whichever it is, get_checksum
\* returns a 12-byte buffer holding "abcdef" followed by six zero bytes, so
\* calls with different paths return equal contents.
C3_FixedContents ==
    (last.op = "get_checksum" /\ last.arg # NULL)
       => /\ last.ret \in HeapAddrs
          /\ mem[last.ret].bytes = PlaceholderBuffer
          /\ \A t \in Threads : \A h \in held[t] :
                 mem[h].bytes = mem[last.ret].bytes

\* C4 (as stated): once every call is over and every non-null buffer that
\* was returned has been released, no call has crashed and no heap block is
\* live; between calls the live blocks number the non-null returns minus
\* the releases of non-null handles.
C4_RoundTrip ==
    Quiescent =>
       /\ ~crashed
       /\ Cardinality(LiveHeap) = nReturned - nReleased
       /\ nReturned = nReleased => LiveHeap = {}

\* C5: release_checksum(null) changes nothing: the memory, the handles the
\* callers hold and the buffers' lifecycle are as before, the process is
\* alive and free was given nothing it does not own.
C5_ReleaseNullNoop ==
    [][ (last' # last /\ last'.op = "release_checksum" /\ last'.arg = NULL)
           => /\ mem' = mem
              /\ held' = held
              /\ life' = life
              /\ nReleased' = nReleased
              /\ crashed' = FALSE
              /\ badFree' = FALSE ]_vars

C5_Witness ==
    /\ last.op = "release_checksum" /\ last.arg = NULL
    /\ LiveHeap # {}
    /\ nReleased > 0

\* C6: every heap block get_checksum allocated belongs to the allocator
\* family release_checksum frees with, and free was never given a block of
\* another family.
C6_AllocatorPairing ==
    /\ ~badFree
    /\ \A a \in HeapAddrs : mem[a].live => mem[a].family = FreeFamily

C6_Witness ==
    /\ last.op = "release_checksum" /\ last.arg # NULL
    /\ LiveHeap # {}

\* C7: a buffer instance only moves none -> pending -> owned -> released.
\* It becomes owned (is handed to the caller) only from pending and only
\* when its block is allocated and holds the zeroed, filled contents; it
\* becomes released only by a release_checksum call on it, which frees its
\* block; a released instance stays released.
C7_Lifecycle ==
    [][ \A i \in 1..MaxCalls :
          /\ life[i] = "none" => life'[i] \in {"none", "pending"}
          /\ life[i] = "pending" => life'[i] \in {"pending", "owned"}
          /\ life[i] = "owned" => life'[i] \in {"owned", "released"}
          /\ life[i] = "released" => life'[i] = "released"
          /\ (life[i] # "owned" /\ life'[i] = "owned")
                => \E a \in HeapAddrs :
                      /\ mem[a].inst = i /\ mem[a].live
                      /\ mem[a].bytes = PlaceholderBuffer
                      /\ last'.op = "get_checksum" /\ last'.ret = a
          /\ (life[i] # "released" /\ life'[i] = "released")
                => /\ last'.op = "release_checksum"
                   /\ last'.arg \in HeapAddrs
                   /\ mem[last'.arg].inst = i
                   /\ ~mem'[last'.arg].live
          /\ life'[i] = "owned"
                => \E a \in HeapAddrs : \E t \in Threads :
                      mem'[a].inst = i /\ mem'[a].live /\ a \in held'[t]
          /\ life'[i] = "released"
                => \A a \in HeapAddrs : mem'[a].inst # i ]_vars

C7_Witness ==
    /\ life[1] = "released"
    /\ life[2] = "owned"
    /\ \E a \in HeapAddrs : mem[a].inst = 2 /\ mem[a].live

\* C8 (as stated): a get_checksum call whose allocation failed never
\* returns to its caller.
C8_AllocFailureFatal ==
    ~(last.op = "get_checksum" /\ last.oom)

\* C9: under any interleaving of the threads' calls, a heap block is in the
\* hands of at most one call or caller at a time, every buffer a caller
\* holds is live and has the contents a sequential run gives it, and the
\* buffers the callers hold are as many as were returned and not yet
\* released (no release took another thread's buffer).
Holders(a) == {t \in Threads : a \in held[t]}
InFlight(a) == {t \in Threads : pc[t] # "idle" /\ frame[t].result = a}
RECURSIVE SumHeld(_)
SumHeld(T) ==
    IF T = {} THEN 0
    ELSE LET t == CHOOSE x \in T : TRUE
         IN Cardinality(held[t]) + SumHeld(T \ {t})

C10_PathUntouched ==
    /\ \A p \in PathAddrs : mem[p] = InitMem[p]
    /\ \A t \in Threads : pc[t] = "idle" => frame[t] = EmptyFrame

C10_Witness ==
    /\ last.op = "release_checksum" /\ last.arg # NULL
    /\ nReturned = MaxCalls

\* On the calls whose allocation succeeded the buffer is as C2 and C3 say.
AllocatedBufferAsStated ==
    (last.op = "get_checksum" /\ last.arg # NULL /\ ~last.oom)
       => /\ last.ret \in HeapAddrs
          /\ mem[last.ret].live
          /\ mem[last.ret].bytes = PlaceholderBuffer
          /\ StrLen(mem[last.ret].bytes) < 12

\* A store lands outside every block, and the process dies, only in a
\* get_checksum call whose allocation failed; release_checksum never
\* crashes; while the process lives nothing leaks.
OnlyAllocFailureBreaks ==
    /\ wildWrite => nMalloc > nAlloc
    /\ crashed => /\ crashSite \in {"memset", "strcpy"}
                  /\ frame[crashThread].oom
    /\ (~crashed /\ Quiescent) => Cardinality(LiveHeap) = nReturned - nReleased

====
